---- MODULE Spec2Model ----
(***************************************************************************)
(* A model of codepy/toolchain.py: the Toolchain record (GCC, NVCC and     *)
(* ISPC variants), add_library, with_optimization_level, the command-line  *)
(* builders, abi_id, dependency scanning and the build operations.         *)
(*                                                                         *)
(* Python strings are modelled as sequences of one-character strings, so   *)
(* that startswith, endswith, rindex, split, join and the "%" formatting   *)
(* are computed character by character as the code computes them.          *)
(*                                                                         *)
(* Python lists that the code mutates in place (include_dirs,              *)
(* library_dirs) and the features set live in a heap and are held by       *)
(* reference: Record.copy (pytools) builds a new object whose fields that  *)
(* are not overridden are the receiver's own objects.  Lists the code only *)
(* ever rebinds (cflags, libraries, ...) are held by value.                *)
(***************************************************************************)
EXTENDS Integers, Sequences, FiniteSets, TLC

VARIABLES
    objs,     \* the toolchain objects, in order of creation
    sets,     \* heap of Python sets: reference -> set of feature names
    lists,    \* heap of Python lists mutated in place: reference -> sequence
    hist,     \* per object: how it came to be (history, read by no operation)
    env,      \* what the host compiler answers to "--version"
    last      \* the last operation performed, its arguments and its outcome

vars == <<objs, sets, lists, hist, env, last>>

\* ------------------------------------------------------------------ bounds

\* Longest include_dirs argument of an add_library call
MaxArgLen == 2
\* Longest library_dirs and libraries argument of an add_library call
MaxShortLen == 1
\* Most toolchain objects alive at once (the first and its copies)
MaxObjs == 3
\* Highest numeric optimization level requested
MaxLevel == 3
\* Longest dependency report drawn from the report alphabet
MaxTextLen == 5
\* Most input files of a build or a command line
MaxFiles == 2

\* ----------------------------------------------------------------- strings

\* str.startswith
StartsWith(s, p) == Len(p) <= Len(s) /\ SubSeq(s, 1, Len(p)) = p

\* str.endswith
EndsWith(s, p) == Len(p) <= Len(s) /\ SubSeq(s, Len(s) - Len(p) + 1, Len(s)) = p

\* list + list over a sequence of lists (pytools.flatten, and the
\* concatenations of _cmdline)
RECURSIVE Flatten(_)
Flatten(ll) == IF ll = <<>> THEN <<>> ELSE Head(ll) \o Flatten(Tail(ll))

\* "sub in s" for strings
Contains(s, sub) ==
    \E i \in 1..(Len(s) - Len(sub) + 1) : SubSeq(s, i, i + Len(sub) - 1) = sub

\* sep.join(parts)
RECURSIVE Join(_, _)
Join(sep, parts) ==
    IF parts = <<>> THEN <<>>
    ELSE IF Len(parts) = 1 THEN parts[1]
    ELSE parts[1] \o sep \o Join(sep, Tail(parts))

\* s.split(sep) for a one-character sep: empty pieces are kept
RECURSIVE SplitOn(_, _)
SplitOn(s, sep) ==
    IF \A i \in 1..Len(s) : s[i] # sep THEN <<s>>
    ELSE LET k == CHOOSE i \in 1..Len(s) :
                     s[i] = sep /\ \A j \in 1..(i - 1) : s[j] # sep
         IN  <<SubSeq(s, 1, k - 1)>> \o SplitOn(SubSeq(s, k + 1, Len(s)), sep)

IsSpace(c) == c \in {" ", "\n", "\t"}

\* s.split(): runs of whitespace separate, no empty piece is produced
RECURSIVE SplitWS(_)
SplitWS(s) ==
    IF \A i \in 1..Len(s) : IsSpace(s[i]) THEN <<>>
    ELSE LET b == CHOOSE i \in 1..Len(s) :
                     ~IsSpace(s[i]) /\ \A j \in 1..(i - 1) : IsSpace(s[j])
             e == CHOOSE i \in b..Len(s) :
                     /\ \A j \in b..i : ~IsSpace(s[j])
                     /\ (i = Len(s) \/ IsSpace(s[i + 1]))
         IN  <<SubSeq(s, b, e)>> \o SplitWS(SubSeq(s, e + 1, Len(s)))

Digits == <<"0", "1", "2", "3", "4", "5", "6", "7", "8", "9">>

\* "%d" % n for n >= 0
RECURSIVE FormatInt(_)
FormatInt(n) ==
    IF n < 10 THEN <<Digits[n + 1]>>
    ELSE FormatInt(n \div 10) \o <<Digits[(n % 10) + 1]>>

DigitValue(c) == (CHOOSE i \in 1..10 : Digits[i] = c) - 1

\* int(s) for an unsigned decimal; -1 stands for ValueError
RECURSIVE ParseInt(_)
ParseInt(s) ==
    IF s = <<>> \/ \E i \in 1..Len(s) : \A d \in 1..10 : Digits[d] # s[i]
    THEN -1
    ELSE IF Len(s) = 1 THEN DigitValue(s[1])
    ELSE 10 * ParseInt(SubSeq(s, 1, Len(s) - 1)) + DigitValue(s[Len(s)])

\* tuple >= tuple: Python's lexicographic order on tuples of integers
RECURSIVE TupleGE(_, _)
TupleGE(a, b) ==
    IF b = <<>> THEN TRUE
    ELSE IF a = <<>> THEN FALSE
    ELSE IF Head(a) # Head(b) THEN Head(a) > Head(b)
    ELSE TupleGE(Tail(a), Tail(b))

\* All sequences over S of length at most n
SeqsUpTo(S, n) == UNION {[1..k -> S] : k \in 0..n}

NoDup(l) == \A i, j \in 1..Len(l) : l[i] = l[j] => i = j

\* ------------------------------------------------ the values of the model

\* Flag prefixes and flags the code names
PfxO == <<"-", "O">>
PfxG == <<"-", "g">>
PfxMarch == <<"-", "m", "a", "r", "c", "h">>
PfxMtune == <<"-", "m", "t", "u", "n", "e">>
FlagNDEBUG == <<"-", "D", "N", "D", "E", "B", "U", "G">>
FlagG == <<"-", "g">>
FlagC == <<"-", "c">>
FlagMarchNative == PfxMarch \o <<"=", "n", "a", "t", "i", "v", "e">>
FlagMtuneNative == PfxMtune \o <<"=", "n", "a", "t", "i", "v", "e">>
FlagFopenmp == <<"-", "f", "o", "p", "e", "n", "m", "p">>

\* Other flags a configuration may start with
FlagFPIC == <<"-", "f", "P", "I", "C">>
FlagO3 == PfxO \o <<"3">>
FlagGgdb == <<"-", "g", "g", "d", "b">>
FlagMarchK8 == PfxMarch \o <<"=", "k", "8">>
FlagMtuneK8 == PfxMtune \o <<"=", "k", "8">>
FlagShared == <<"-", "s", "h", "a", "r", "e", "d">>

FeatureNames == {"boost", "cuda"}
DirA == <<"/", "a">>
DirB == <<"/", "b">>
Dirs == {DirA, DirB}
LibM == <<"m">>
LibZ == <<"z">>

CcGcc == <<"g", "c", "c">>
CcNvcc == <<"n", "v", "c", "c">>
CcIspc == <<"i", "s", "p", "c">>
CppGxx == <<"g", "+", "+">>
LdLd == <<"l", "d">>

Classes == {"GCC", "NVCC", "ISPC"}

\* What "cc --version" may print, with the exit code of the query
VerOld == <<"g", "c", "c", " ", "(", "G", ")", " ", "4", ".", "2", ".", "1">>
VerNew == <<"g", "c", "c", " ", "(", "G", ")", " ", "4", ".", "3", "\n", "F", "S", "F">>
VerDistro == <<"g", "c", "c", " ", "(", "D", " ", "1", "0", ".", "2", "-", "6", ")">>
VerShort == <<"c", "c">>
ErrNotFound == <<"n", "o", "t", " ", "f", "o", "u", "n", "d">>
VersionAnswers ==
    {[rc |-> 0, out |-> v, err |-> <<>>] : v \in {VerOld, VerNew, VerDistro, VerShort}}
    \cup {[rc |-> 1, out |-> <<>>, err |-> ErrNotFound]}

\* --------------------------------------------------------------- Toolchain

Features(o) == sets[objs[o].features]
IncludeDirs(o) == lists[objs[o].include_dirs]
LibraryDirs(o) == lists[objs[o].library_dirs]

\* add_library without its early return: the feature is never found
FeatureNeverPresent(features, feature) == FALSE

\* add_library: "if feature in self.features: return"
FeaturePresent(features, feature) == feature \in features

\* add_library appending every directory, present or not
AppendAll(cur, new) == cur \o new

\* add_library: "for d in dirs: if d not in self.dirs: self.dirs.append(d)"
RECURSIVE AppendNew(_, _)
AppendNew(cur, new) ==
    IF new = <<>> THEN cur
    ELSE AppendNew(IF \E i \in 1..Len(cur) : cur[i] = Head(new)
                   THEN cur ELSE Append(cur, Head(new)),
                   Tail(new))

\* add_library appending the new libraries instead of prepending them
AppendLibraries(libraries, cur) == cur \o libraries

\* add_library: "self.libraries = libraries + self.libraries"
PrependLibraries(libraries, cur) == libraries \o cur

\* Whether the arguments of an add_library call repeat an entry or name one
\* already present (history only: the note of a call that was carried out)
ArgsOverlap(o, incs, ldirs) ==
    \/ ~NoDup(incs) \/ ~NoDup(ldirs)
    \/ \E i \in 1..Len(incs) : \E j \in 1..Len(IncludeDirs(o)) : incs[i] = IncludeDirs(o)[j]
    \/ \E i \in 1..Len(ldirs) : \E j \in 1..Len(LibraryDirs(o)) : ldirs[i] = LibraryDirs(o)[j]

\* Whether the arguments of an add_library call name a directory or a
\* library the toolchain does not have yet (history only: the note of a
\* call that was ignored)
ArgsBringNew(o, incs, ldirs, libs) ==
    \/ libs # <<>>
    \/ \E i \in 1..Len(incs) : \A j \in 1..Len(IncludeDirs(o)) : incs[i] # IncludeDirs(o)[j]
    \/ \E i \in 1..Len(ldirs) : \A j \in 1..Len(LibraryDirs(o)) : ldirs[i] # LibraryDirs(o)[j]

AddLibrary(o, feature, incs, ldirs, libs) ==
    /\ o \in 1..Len(objs)
    /\ IF FeaturePresent(Features(o), feature)
       THEN /\ UNCHANGED <<objs, sets, lists, hist>>
            /\ last' = [op |-> "add_library", obj |-> o, raised |-> "none",
                        feature |-> feature, repeat |-> TRUE,
                        note |-> ArgsBringNew(o, incs, ldirs, libs)]
       ELSE /\ sets' = [sets EXCEPT ![objs[o].features] = @ \cup {feature}]
            /\ LET l1 == [lists EXCEPT ![objs[o].include_dirs] = AppendNew(@, incs)]
               IN  lists' = [l1 EXCEPT ![objs[o].library_dirs] = AppendNew(@, ldirs)]
            /\ objs' = [objs EXCEPT ![o].libraries = PrependLibraries(libs, @)]
            /\ hist' = [hist EXCEPT ![o].added = Append(@, libs)]
            /\ last' = [op |-> "add_library", obj |-> o, raised |-> "none",
                        feature |-> feature, repeat |-> FALSE,
                        note |-> ArgsOverlap(o, incs, ldirs)]
    /\ UNCHANGED env

\* ------------------------------------------------------- version probing

\* "if result > 0": the exit code of a compiler a signal killed is negative
ExitPositive(result) == result > 0

\* "if result != 0"
ExitFailed(result) == result # 0

Ok(v) == [raised |-> "none", value |-> v]
Raise(e) == [raised |-> e, value |-> <<>>]

\* GCCLikeToolchain.get_version
GetVersion ==
    IF ExitFailed(env.rc) THEN Raise("RuntimeError") ELSE Ok(env.out)

\* The loop of get_version_tuple: int(n) for each n, up to the first that
\* is no integer
RECURSIVE IntPrefix(_)
IntPrefix(numbers) ==
    IF numbers = <<>> \/ ParseInt(Head(numbers)) = -1 THEN <<>>
    ELSE <<ParseInt(Head(numbers))>> \o IntPrefix(Tail(numbers))

\* GCCToolchain.get_version_tuple
GCCGetVersionTuple ==
    LET ver == GetVersion
    IN  IF ver.raised # "none" THEN ver
        ELSE LET lines == SplitOn(ver.value, "\n")
                 words == SplitWS(lines[1])
             IN  IF Len(words) < 3 THEN Raise("IndexError")
                 ELSE Ok(IntPrefix(SplitOn(words[3], ".")))

\* -------------------------------------------------- with_optimization_level

LevelDebug == [debug |-> TRUE, n |-> 0]
LevelInt(k) == [debug |-> FALSE, n |-> k]
Levels == {LevelDebug} \cup {LevelInt(k) : k \in 0..MaxLevel}

\* remove_prefix comparing whole flags instead of their beginnings
RemoveEqual(l, prefix) == SelectSeq(l, LAMBDA f : f # prefix)

\* remove_prefix
RemovePrefix(l, prefix) == SelectSeq(l, LAMBDA f : ~StartsWith(f, prefix))

\* "for pfx in [...]: cflags = remove_prefix(cflags, pfx)"
RECURSIVE RemovePrefixes(_, _)
RemovePrefixes(l, pfxs) ==
    IF pfxs = <<>> THEN l
    ELSE RemovePrefixes(RemovePrefix(l, Head(pfxs)), Tail(pfxs))

\* The prefixes stripped, the architecture-tuning ones forgotten
StripPrefixesNoTuning == <<PfxO, PfxG, FlagNDEBUG>>

\* The prefixes GCCToolchain.with_optimization_level strips
GCCStripPrefixes == <<PfxO, PfxG, PfxMarch, PfxMtune, FlagNDEBUG>>
\* The prefixes ISPCToolchain.with_optimization_level strips
ISPCStripPrefixes == <<PfxO, PfxG, FlagNDEBUG>>

\* The version gate of GCCToolchain.with_optimization_level
MinTuneVersion == <<4, 3>>

\* oflags of GCCToolchain.with_optimization_level
GCCOFlags(level) ==
    IF level.debug THEN Ok(<<FlagG>>)
    ELSE LET base == <<PfxO \o FormatInt(level.n), FlagNDEBUG>>
         IN  IF level.n >= 2
             THEN LET vt == GCCGetVersionTuple
                  IN  IF vt.raised # "none" THEN vt
                      ELSE IF TupleGE(vt.value, MinTuneVersion)
                      THEN Ok(base \o <<FlagMarchNative, FlagMtuneNative>>)
                      ELSE Ok(base)
             ELSE Ok(base)

\* oflags of ISPCToolchain.with_optimization_level
ISPCOFlags(level) ==
    IF level.debug THEN Ok(<<FlagG>>)
    ELSE Ok(<<PfxO \o FormatInt(level.n), FlagNDEBUG>>)

\* The cflags of the toolchain with_optimization_level returns
NewCFlags(cls, cflags, level) ==
    IF cls = "GCC"
    THEN LET oflags == GCCOFlags(level)
         IN  IF oflags.raised # "none" THEN oflags
             ELSE Ok(RemovePrefixes(cflags, GCCStripPrefixes) \o oflags.value)
    ELSE IF cls = "ISPC"
    THEN LET oflags == ISPCOFlags(level)
         IN  Ok(RemovePrefixes(cflags, ISPCStripPrefixes) \o oflags.value)
    ELSE Raise("NotImplementedError")

\* Record.copy(cflags=...): a new object, every other field the receiver's
Copy(obj, cflags) == [obj EXCEPT !.cflags = cflags]

WithOptimizationLevel(o, level) ==
    /\ o \in 1..Len(objs)
    /\ Len(objs) < MaxObjs
    /\ LET res == NewCFlags(objs[o].cls, objs[o].cflags, level)
       IN  IF res.raised # "none"
           THEN /\ UNCHANGED <<objs, hist>>
                /\ last' = [op |-> "with_optimization_level", obj |-> o,
                            raised |-> res.raised, level |-> level, new |-> 0]
           ELSE /\ objs' = Append(objs, Copy(objs[o], res.value))
                /\ hist' = Append(hist, [hist[o] EXCEPT !.parent = o, !.level = level])
                /\ last' = [op |-> "with_optimization_level", obj |-> o,
                            raised |-> "none", level |-> level,
                            new |-> Len(objs) + 1]
    /\ UNCHANGED <<sets, lists, env>>

\* ----------------------------------------------------------- command lines

FileIspc == <<"a", ".", "i", "s", "p", "c">>
FileCpp == <<"b", ".", "c", "p", "p">>
FileO == <<"a", ".", "o">>
FileSo == <<"b", ".", "s", "o">>
FileBare == <<"x">>

ExtIspc == <<".", "i", "s", "p", "c">>
ExtCpp == <<".", "c", "p", "p">>

\* ["-X%s" % e for e in l]
RenderAll(prefix, l) == [i \in 1..Len(l) |-> prefix \o l[i]]

\* GCCToolchain._cmdline
GCCCmdline(o, files, object) ==
    LET t == objs[o]
        ld_options == IF object THEN <<FlagC>> ELSE t.ldflags
        link == IF object THEN <<>>
                ELSE RenderAll(<<"-", "L">>, LibraryDirs(o))
                     \o RenderAll(<<"-", "l">>, t.libraries)
    IN  Ok(<<t.cc>> \o t.cflags \o ld_options
           \o RenderAll(<<"-", "D">>, t.defines)
           \o RenderAll(<<"-", "U">>, t.undefines)
           \o RenderAll(<<"-", "I">>, IncludeDirs(o))
           \o files \o link)

\* NVCCToolchain._cmdline
NVCCCmdline(o, files, object) ==
    LET t == objs[o]
        ldflags == IF object THEN <<FlagC>> ELSE t.ldflags
        load == IF object THEN <<>>
                ELSE RenderAll(<<"-", "L">>, LibraryDirs(o))
                     \o RenderAll(<<"-", "l">>, t.libraries)
    IN  Ok(<<t.cc>> \o t.cflags \o ldflags
           \o RenderAll(<<"-", "D">>, t.defines)
           \o RenderAll(<<"-", "U">>, t.undefines)
           \o RenderAll(<<"-", "I">>, IncludeDirs(o))
           \o files \o load)

\* ISPCToolchain.get_cc
ISPCGetCC(t, files, obj) ==
    IF (obj /\ \A i \in 1..Len(files) : EndsWith(files[i], ExtIspc)) \/ files = <<>>
    THEN t.cc
    ELSE IF \A i \in 1..Len(files) : EndsWith(files[i], ExtCpp)
    THEN t.cpp
    ELSE t.ld

\* f.rindex('.'), counted from 1; 0 stands for ValueError
RIndexDot(f) ==
    IF \A i \in 1..Len(f) : f[i] # "." THEN 0
    ELSE CHOOSE i \in 1..Len(f) : f[i] = "." /\ \A j \in (i + 1)..Len(f) : f[j] # "."

\* __get_ext, where f has a '.'
GetExt(f) == SubSeq(f, RIndexDot(f) + 1, Len(f))

MixedFiletypes == "Can't compile mixed filetypes: "

\* The check of mixed extensions in ISPCToolchain._cmdline: the error it
\* raises, if any.  The message joins a Python set, whose order is not
\* defined: it is kept as the set of the names joined.
ISPCMixedCheck(files) ==
    IF RIndexDot(files[1]) = 0 THEN Raise("ValueError")
    ELSE IF \A i \in 1..Len(files) : EndsWith(files[i], GetExt(files[1]))
    THEN Ok(<<>>)
    ELSE IF \E i \in 1..Len(files) : RIndexDot(files[i]) = 0
    THEN Raise("ValueError")
    ELSE [raised |-> "CompileError",
          value |-> [text |-> MixedFiletypes,
                     joined |-> {GetExt(files[i]) : i \in 1..Len(files)}]]

\* "-l%s" % lib, for every lib
PlainRenderLib(lib) == <<"-", "l">> \o lib

\* "-l%s" % lib if not lib == '-fopenmp' else '-fopenmp'
ISPCRenderLib(lib) == IF lib # FlagFopenmp THEN <<"-", "l">> \o lib ELSE FlagFopenmp

\* ISPCToolchain._cmdline
ISPCCmdline(o, files, obj) ==
    LET t == objs[o]
        cc == ISPCGetCC(t, files, obj)
        flags == IF cc # t.cc
                 THEN t.cppflags \o (IF obj THEN <<FlagC>> ELSE <<>>)
                 ELSE t.cflags
        check == IF cc # t.cc THEN ISPCMixedCheck(files) ELSE Ok(<<>>)
        ld_options == IF obj THEN <<>> ELSE t.ldflags
        link == IF obj THEN <<>>
                ELSE RenderAll(<<"-", "L">>, LibraryDirs(o))
                     \o [i \in 1..Len(t.libraries) |-> ISPCRenderLib(t.libraries[i])]
    IN  IF check.raised # "none" THEN check
        ELSE Ok(<<cc>> \o flags \o ld_options
                \o RenderAll(<<"-", "D">>, t.defines)
                \o RenderAll(<<"-", "U">>, t.undefines)
                \o RenderAll(<<"-", "I">>, IncludeDirs(o))
                \o files \o link)

\* self._cmdline, by the class of the object
Cmdline(o, files, object) ==
    IF objs[o].cls = "GCC" THEN GCCCmdline(o, files, object)
    ELSE IF objs[o].cls = "NVCC" THEN NVCCCmdline(o, files, object)
    ELSE ISPCCmdline(o, files, object)

\* A call of self._cmdline(files, object)
CmdlineCall(o, files, object) ==
    /\ o \in 1..Len(objs)
    /\ last' = [op |-> "_cmdline", obj |-> o, files |-> files, object |-> object,
                raised |-> Cmdline(o, files, object).raised,
                value |-> Cmdline(o, files, object).value]
    /\ UNCHANGED <<objs, sets, lists, hist, env>>

\* ------------------------------------------------------ get_dependencies

\* codepy.tools.join_continued_lines: a line ending in a backslash loses
\* it and is joined with the line after it
RECURSIVE JoinContinuedLines(_)
JoinContinuedLines(lines) ==
    IF lines = <<>> THEN <<>>
    ELSE LET line == Head(lines)
         IN  IF ~EndsWith(line, <<"\\">>)
             THEN <<line>> \o JoinContinuedLines(Tail(lines))
             ELSE LET cut == SubSeq(line, 1, Len(line) - 1)
                      rest == JoinContinuedLines(Tail(lines))
                  IN  IF rest = <<>> THEN <<cut>>
                      ELSE <<cut \o Head(rest)>> \o Tail(rest)

\* "line.split()[2:]" with one token less dropped
TokensAfterOne(line) ==
    LET toks == SplitWS(line) IN {toks[i] : i \in 2..Len(toks)}

\* "line.split()[2:]", as the set of its tokens
TokensAfterTwo(line) ==
    LET toks == SplitWS(line) IN {toks[i] : i \in 3..Len(toks)}

\* "set(flatten(line.split()[2:] for line in lines))"
DependenciesOf(lines) == UNION {TokensAfterTwo(lines[i]) : i \in 1..Len(lines)}

\* The parsing of get_dependencies, from the text read to the set returned
ParseDependencies(text) == DependenciesOf(JoinContinuedLines(SplitOn(text, "\n")))

FlagM == <<"-", "M">>
FlagMMM == <<"-", "M", "M", "M">>
TempName == <<"/", "t", "m", "p", "/", "l", "o", "o", "p", "y", "1">>
ExtO == <<".", "o">>
DepsFailed == <<"g", "e", "t", "t", "i", "n", "g", " ", "d", "e", "p", "e", "n", "d", "e", "n", "c", "i", "e", "s", " ", "f", "a", "i", "l", "e", "d", ":", " ">>

\* GCCLikeToolchain.get_dependencies and ISPCToolchain.get_dependencies.
\* rc and stderr are the compiler's exit code and error output; report is
\* the dependency report it writes: into the file named after -MMM when
\* it is given one, to its standard output otherwise.
GetDependencies(o, source_files, rc, report, stderr) ==
    /\ o \in 1..Len(objs)
    /\ LET t == objs[o]
           ispc == t.cls = "ISPC"
           building_obj == ~(\A i \in 1..Len(source_files) :
                                 EndsWith(source_files[i], ExtO))
           cc == IF ispc THEN ISPCGetCC(t, source_files, building_obj) ELSE t.cc
           cflags == IF ispc /\ cc # t.cc THEN t.cppflags ELSE t.cflags
           toFile == ispc /\ cc = CcIspc
           depends == IF toFile THEN <<FlagMMM, TempName>> ELSE <<FlagM>>
           cmdline == <<cc>> \o depends
                      \o RenderAll(<<"-", "D">>, t.defines)
                      \o RenderAll(<<"-", "U">>, t.undefines)
                      \o RenderAll(<<"-", "I">>, IncludeDirs(o))
                      \o cflags \o source_files
           stdout == IF toFile THEN <<>> ELSE report
           tempfile == IF toFile THEN report ELSE <<>>
           read == IF ispc THEN tempfile ELSE stdout
       IN  last' = [op |-> "get_dependencies", obj |-> o, ran |-> TRUE,
                    cmdline |-> cmdline, rc |-> rc, stderr |-> stderr,
                    printed |-> <<>>, report |-> report, read |-> read,
                    raised |-> IF ExitFailed(rc) THEN "CompileError" ELSE "none",
                    msg |-> IF ExitFailed(rc) THEN DepsFailed \o stderr ELSE <<>>,
                    result |-> IF ExitFailed(rc) THEN {} ELSE ParseDependencies(read)]
    /\ UNCHANGED <<objs, sets, lists, hist, env>>

\* ------------------------------------------------------------------ abi_id

\* sys.version of the interpreter
SysVersion == <<"3", ".", "8", ".", "1", "0">>

\* abi_id of GCCToolchain, NVCCToolchain and ISPCToolchain:
\* Toolchain.abi_id(self) + [self._cmdline([])]
AbiId(o) ==
    IF GetVersion.raised # "none" THEN GetVersion
    ELSE Ok(<<GetVersion.value, SysVersion, Cmdline(o, <<>>, FALSE).value>>)

\* The fingerprints taken so far, by object
Probed == IF last.op = "abi_id" THEN last.ids ELSE <<>>

\* A call of abi_id on a toolchain not probed yet
AbiIdCall(o) ==
    /\ o \in 1..Len(objs)
    /\ o \notin DOMAIN Probed
    /\ last' = [op |-> "abi_id", obj |-> o, raised |-> AbiId(o).raised,
                ids |-> (o :> AbiId(o)) @@ Probed]
    /\ UNCHANGED <<objs, sets, lists, hist, env>>

\* -------------------------------------------------------- build operations

FailedInvocation == <<"F", "A", "I", "L", "E", "D", " ", "c", "o", "m", "p", "i", "l", "e", "r", " ", "i", "n", "v", "o", "c", "a", "t", "i", "o", "n", ":">>
CompilationFailed == <<"m", "o", "d", "u", "l", "e", " ", "c", "o", "m", "p", "i", "l", "a", "t", "i", "o", "n", " ", "f", "a", "i", "l", "e", "d">>
VersionFailed == <<"v", "e", "r", "s", "i", "o", "n", " ", "q", "u", "e", "r", "y", " ", "f", "a", "i", "l", "e", "d", ":", " ">>
ErrorMarker == <<"e", "r", "r", "o", "r">>
AddingTasksys == <<"A", "d", "d", "i", "n", "g", " ", "s", "y", "s", "t", "e", "m", " ", "t", "a", "s", "k", "s", "y", "s", ".", "c", "p", "p", " ", "t", "o", " ", "s", "o", "u", "r", "c", "e", " ", "f", "i", "l", "e", "s">>
FlagVersion == <<"-", "-", "v", "e", "r", "s", "i", "o", "n">>
FlagOut == <<"-", "o">>

\* An operation that raised before any compiler was run
NotRun(op, o, raised, msg, sources) ==
    [op |-> op, obj |-> o, ran |-> FALSE, cmdline |-> <<>>, rc |-> 0,
     stderr |-> <<>>, out |-> <<>>, printed |-> <<>>, sources |-> sources,
     raised |-> raised, msg |-> msg]

\* The body GCCLikeToolchain.build_object, build_extension and
\* link_extension share: cmd is what self._cmdline gave, rc the exit code
\* of call(cc_cmdline); stderr, which call() does not capture, is recorded
\* only.  out is what is printed to sys.stdout, printed what is printed to
\* sys.stderr.
GCCLikeBuild(op, o, cmd, ext_file, debug, rc, stderr, sources) ==
    IF cmd.raised # "none" THEN NotRun(op, o, cmd.raised, cmd.value, sources)
    ELSE LET cc_cmdline == cmd.value \o <<FlagOut, ext_file>>
         IN  [op |-> op, obj |-> o, ran |-> TRUE, cmdline |-> cc_cmdline,
              rc |-> rc, stderr |-> stderr, sources |-> sources,
              out |-> IF debug THEN <<Join(<<" ">>, cc_cmdline)>> ELSE <<>>,
              printed |-> IF ExitFailed(rc)
                          THEN <<FailedInvocation \o Join(<<" ">>, cc_cmdline)>>
                          ELSE <<>>,
              raised |-> IF ExitFailed(rc) THEN "CompileError" ELSE "none",
              msg |-> IF ExitFailed(rc) THEN CompilationFailed ELSE <<>>]

\* NVCCToolchain.build_object: the output is captured and printed, and
\* "error" in stderr makes the result 1
NVCCBuildObject(o, ext_file, source_files, debug, rc, stderr) ==
    LET cc_cmdline == NVCCCmdline(o, source_files, TRUE).value \o <<FlagOut, ext_file>>
        result == IF Contains(stderr, ErrorMarker) THEN 1 ELSE rc
    IN  [op |-> "build_object", obj |-> o, ran |-> TRUE, cmdline |-> cc_cmdline,
         rc |-> rc, stderr |-> stderr, sources |-> source_files,
         out |-> (IF debug THEN <<Join(<<" ">>, cc_cmdline)>> ELSE <<>>)
                 \o <<stderr, <<>>>>,
         printed |-> IF ExitFailed(result)
                     THEN <<FailedInvocation \o Join(<<" ">>, cc_cmdline)>>
                     ELSE <<>>,
         raised |-> IF ExitFailed(result) THEN "CompileError" ELSE "none",
         msg |-> IF ExitFailed(result) THEN CompilationFailed ELSE <<>>]

\* build_object: NVCCToolchain's own, GCCLikeToolchain's for the others
BuildObject(o, ext_file, source_files, debug, rc, stderr) ==
    /\ o \in 1..Len(objs)
    /\ last' = IF objs[o].cls = "NVCC"
               THEN NVCCBuildObject(o, ext_file, source_files, debug, rc, stderr)
               ELSE GCCLikeBuild("build_object", o, Cmdline(o, source_files, TRUE),
                                 ext_file, debug, rc, stderr, source_files)
    /\ UNCHANGED <<objs, sets, lists, hist, env>>

\* realpath(__file__) of the module
ModuleFile == <<"/", "c", "/", "t", "o", "o", "l", "c", "h", "a", "i", "n", ".", "p", "y">>

\* join(current_dir, 'include', 'codepy' 'tasksys.cpp')
TasksysPath == ModuleFile \o <<"/", "i", "n", "c", "l", "u", "d", "e", "/">> \o <<"c", "o", "d", "e", "p", "y">> \o <<"t", "a", "s", "k", "s", "y", "s", ".", "c", "p", "p">>

\* What evaluating "file.endswith" raises: file is no name in Python 3,
\* and the built-in file type, which has no endswith, in Python 2
FileNameErrors == {"NameError", "AttributeError"}

\* ISPCToolchain.build_extension: "any(file.endswith('tasksys.cpp') for f
\* in source_files)" evaluates file.endswith once source_files has an item
ISPCBuildExtension(o, ext_file, source_files, debug, rc, stderr, exc) ==
    IF source_files # <<>>
    THEN NotRun("build_extension", o, exc, <<>>, source_files)
    ELSE LET sources == source_files \o <<TasksysPath>>
             res == GCCLikeBuild("build_extension", o, Cmdline(o, sources, FALSE),
                                 ext_file, FALSE, rc, stderr, sources)
         IN  [res EXCEPT !.out = (IF debug THEN <<AddingTasksys>> ELSE <<>>) \o @]

\* build_extension: ISPCToolchain's own, GCCLikeToolchain's for the others;
\* given keeps the list the caller passed
BuildExtension(o, ext_file, source_files, debug, rc, stderr) ==
    /\ o \in 1..Len(objs)
    /\ \E exc \in FileNameErrors :
          last' = [given |-> source_files] @@
                  (IF objs[o].cls = "ISPC"
                   THEN ISPCBuildExtension(o, ext_file, source_files, debug, rc, stderr, exc)
                   ELSE GCCLikeBuild("build_extension", o, Cmdline(o, source_files, FALSE),
                                     ext_file, debug, rc, stderr, source_files))
    /\ UNCHANGED <<objs, sets, lists, hist, env>>

\* GCCLikeToolchain.link_extension
LinkExtension(o, ext_file, object_files, debug, rc, stderr) ==
    /\ o \in 1..Len(objs)
    /\ last' = GCCLikeBuild("link_extension", o, Cmdline(o, object_files, FALSE),
                            ext_file, debug, rc, stderr, object_files)
    /\ UNCHANGED <<objs, sets, lists, hist, env>>

\* A call of GCCLikeToolchain.get_version
GetVersionCall(o) ==
    /\ o \in 1..Len(objs)
    /\ last' = [op |-> "get_version", obj |-> o, ran |-> TRUE,
                cmdline |-> <<objs[o].cc, FlagVersion>>, rc |-> env.rc,
                stderr |-> env.err, out |-> <<>>, printed |-> <<>>,
                raised |-> GetVersion.raised,
                msg |-> IF ExitFailed(env.rc) THEN VersionFailed \o env.err ELSE <<>>,
                result |-> GetVersion.value]
    /\ UNCHANGED <<objs, sets, lists, hist, env>>

\* ------------------------------------------------------ the configurations

CFlagsPlain == <<FlagFPIC>>
CFlagsTuned == <<FlagO3, FlagFPIC, FlagGgdb, FlagMtuneK8, FlagNDEBUG, FlagMarchK8>>

DefineOMP == <<"I", "S", "P", "C", "_", "U", "S", "E", "_", "O", "M", "P">>
FlagTarget == <<"-", "-", "t", "a", "r", "g", "e", "t">>
TargetHost == <<"h", "o", "s", "t">>

\* A toolchain as its constructor leaves it.  cpp, ld and cppflags are
\* fields of the ISPC toolchain only, whose constructor (use_openmp and
\* target left at their defaults) extends defines, libraries and cflags.
NewToolchain(cls, cflags, cppflags, ldflags, defines, undefines, libraries, r) ==
    [cls |-> cls,
     cc |-> IF cls = "GCC" THEN CcGcc ELSE IF cls = "NVCC" THEN CcNvcc ELSE CcIspc,
     cpp |-> CppGxx, ld |-> LdLd,
     cflags |-> IF cls = "ISPC" THEN cflags \o <<FlagTarget, TargetHost>> ELSE cflags,
     cppflags |-> cppflags, ldflags |-> ldflags,
     defines |-> IF cls = "ISPC" THEN defines \o <<DefineOMP>> ELSE defines,
     undefines |-> undefines,
     libraries |-> IF cls = "ISPC" THEN libraries \o <<FlagFopenmp>> ELSE libraries,
     features |-> r, include_dirs |-> r, library_dirs |-> r + 1]

NoHistory(libraries) ==
    [parent |-> 0, level |-> LevelDebug, libs0 |-> libraries, added |-> <<>>]

NoOp == [op |-> "none", obj |-> 0, raised |-> "none"]

InitWith(cflagsChoices, librariesChoices, featuresChoices, answers) ==
    /\ \E cls \in Classes, cflags \in cflagsChoices, libraries \in librariesChoices :
          /\ objs = <<NewToolchain(cls, cflags, <<FlagFPIC>>, <<FlagShared>>,
                                   <<>>, <<>>, libraries, 1)>>
          /\ hist = <<NoHistory(objs[1].libraries)>>
    /\ \E fs \in featuresChoices : sets = (1 :> fs)
    /\ \E incs \in {<<>>, <<DirA>>} : lists = (1 :> incs) @@ (2 :> <<DirA>>)
    /\ env \in answers
    /\ last = NoOp

\* Libraries are added to a toolchain
Init == InitWith({CFlagsPlain}, {<<LibM>>}, {{}},
                 {a \in VersionAnswers : a.out = VerNew})

\* The libraries argument of the add_library calls made
LibraryArgs == {<<LibM>>, <<LibZ>>, <<LibZ, LibM>>}

Next ==
    \E o \in 1..Len(objs), feature \in FeatureNames,
       incs \in SeqsUpTo(Dirs, MaxArgLen), ldirs \in SeqsUpTo(Dirs, MaxShortLen),
       libs \in LibraryArgs :
       AddLibrary(o, feature, incs, ldirs, libs)

Spec == Init /\ [][Next]_vars

\* Optimization levels are set, one copy after the other
InitOpt == InitWith({CFlagsPlain, CFlagsTuned}, {<<>>, <<LibM>>}, {{}, {"boost"}},
                    VersionAnswers)

NextOpt == \E o \in 1..MaxObjs, level \in Levels : WithOptimizationLevel(o, level)

SpecOpt == InitOpt /\ [][NextOpt]_vars

\* Dependency reports are parsed
DepExample == <<"o", "u", "t", ".", "o", ":", " ", "a", ".", "h", " ", "b", ".", "h", " ", "\\", "\n", "c", ".", "h">>
DepTwoRules == <<"k", ".", "o", ":", " ", "k", ".", "c", " ", "a", ".", "h", " ", "\\", "\n", " ", "b", ".", "h", "\n", "j", ".", "o", ":", " ", "j", ".", "c">>
DepAlphabet == {"a", " ", "\\", "\n"}
DepReports == {DepExample, DepTwoRules} \cup SeqsUpTo(DepAlphabet, MaxTextLen)

InitDeps == InitWith({CFlagsPlain}, {<<>>}, {{}},
                     {a \in VersionAnswers : a.out = VerNew})

\* One scan per behaviour: a scan changes nothing a later one reads
NextDeps ==
    /\ last = NoOp
    /\ \E source_files \in {<<FileCpp>>, <<FileIspc>>}, rc \in {0, 1},
          report \in DepReports :
          GetDependencies(1, source_files, rc, report,
                          IF rc = 0 THEN <<>> ELSE ErrNotFound)

SpecDeps == InitDeps /\ [][NextDeps]_vars

\* Compilers are run
OutFile == <<"m", ".", "s", "o">>
FileNames == {FileIspc, FileCpp, FileO, FileSo, FileBare}
\* A tasksys.cpp the caller names among the sources
FileTasksys == <<"s", "/", "t", "a", "s", "k", "s", "y", "s", ".", "c", "p", "p">>
SourceNames == FileNames \cup {FileTasksys}
ErrWarning == <<"w", "a", "r", "n", "i", "n", "g", ":", " ", "w">>
ErrError == <<"k", ".", "c", "u", "(", "1", ")", ":", " ", "e", "r", "r", "o", "r", ":", " ", "e">>
\* The exit code of a compiler: 0, 1, and -11 when a signal killed it
ExitCodes == {0, 1, -11}
ErrorOutputs == {<<>>, ErrWarning, ErrError}

InitRun == InitWith({CFlagsPlain}, {<<LibM>>}, {{}}, VersionAnswers)

\* One operation per behaviour: an operation changes nothing a later one reads
OneBuildObject ==
    /\ last = NoOp
    /\ \E files \in SeqsUpTo(FileNames, MaxFiles), debug \in BOOLEAN,
          rc \in ExitCodes, stderr \in ErrorOutputs :
          BuildObject(1, OutFile, files, debug, rc, stderr)

OneBuildExtension ==
    /\ last = NoOp
    /\ \E files \in SeqsUpTo(SourceNames, MaxFiles), debug \in BOOLEAN,
          rc \in ExitCodes, stderr \in ErrorOutputs :
          BuildExtension(1, OutFile, files, debug, rc, stderr)

OneLinkExtension ==
    /\ last = NoOp
    /\ \E files \in SeqsUpTo(FileNames, MaxFiles), debug \in BOOLEAN,
          rc \in ExitCodes, stderr \in ErrorOutputs :
          LinkExtension(1, OutFile, files, debug, rc, stderr)

OneGetDependencies ==
    /\ last = NoOp
    /\ \E files \in SeqsUpTo(FileNames, MaxFiles), rc \in ExitCodes,
          stderr \in ErrorOutputs :
          GetDependencies(1, files, rc, DepExample, stderr)

OneGetVersion == last = NoOp /\ GetVersionCall(1)

NextRun ==
    \/ OneBuildObject
    \/ OneBuildExtension
    \/ OneLinkExtension
    \/ OneGetDependencies
    \/ OneGetVersion

SpecRun == InitRun /\ [][NextRun]_vars

\* Two configurations of one backend are fingerprinted.  The first is a
\* fixed one; the second varies field by field, each variant a flag or a
\* path the other fields cannot produce.
FlagStrip == <<"-", "s">>
MacroX == <<"X">>
MacroY == <<"Y">>

InitAbi ==
    /\ \E cls \in Classes,
          cflags \in {<<FlagFPIC>>, <<FlagFPIC, FlagO3>>},
          cppflags \in {<<FlagFPIC>>, <<FlagFPIC, FlagGgdb>>},
          ldflags \in {<<FlagShared>>, <<FlagShared, FlagStrip>>},
          defines \in {<<>>, <<MacroX>>}, undefines \in {<<>>, <<MacroY>>} :
          /\ cls # "ISPC" => cppflags = <<FlagFPIC>>
          /\ objs = <<NewToolchain(cls, <<FlagFPIC>>, <<FlagFPIC>>, <<FlagShared>>,
                                   <<>>, <<>>, <<LibM>>, 1),
                      NewToolchain(cls, cflags, cppflags, ldflags,
                                   defines, undefines, <<LibM>>, 3)>>
          /\ hist = <<NoHistory(objs[1].libraries), NoHistory(objs[2].libraries)>>
    /\ \E fa \in SUBSET FeatureNames, fb \in SUBSET FeatureNames :
          sets = (1 :> fa) @@ (3 :> fb)
    /\ \E incs \in {<<>>, <<DirA>>}, ldirs \in {<<DirA>>, <<DirA, DirB>>} :
          lists = (1 :> <<>>) @@ (2 :> <<DirA>>) @@ (3 :> incs) @@ (4 :> ldirs)
    /\ env \in {a \in VersionAnswers : a.out \in {VerNew, VerOld}}
    /\ last = NoOp

NextAbi == \E o \in 1..Len(objs) : AbiIdCall(o)

SpecAbi == InitAbi /\ [][NextAbi]_vars

\* Command lines are built
InitCmd ==
    /\ \E cls \in Classes,
          cflags \in {CFlagsPlain, <<FlagFPIC, FlagO3>>},
          cppflags \in {<<FlagFPIC>>, <<FlagGgdb>>},
          defines \in {<<>>, <<MacroX>>}, undefines \in {<<>>, <<MacroY>>},
          libraries \in {<<>>, <<LibM>>, <<LibZ, LibM>>} :
          /\ cls # "ISPC" => cppflags = <<FlagFPIC>>
          /\ objs = <<NewToolchain(cls, cflags, cppflags, <<FlagShared>>,
                                   defines, undefines, libraries, 1)>>
          /\ hist = <<NoHistory(objs[1].libraries)>>
    /\ sets = (1 :> {})
    /\ \E incs \in {<<>>, <<DirA>>} : lists = (1 :> incs) @@ (2 :> <<DirA, DirB>>)
    /\ env \in {a \in VersionAnswers : a.out = VerNew}
    /\ last = NoOp

\* One command line per behaviour: building one changes nothing
NextCmd ==
    /\ last = NoOp
    /\ \E files \in SeqsUpTo(FileNames, MaxFiles), object \in BOOLEAN :
          CmdlineCall(1, files, object)

SpecCmd == InitCmd /\ [][NextCmd]_vars

\* Copies are made and libraries are added to the toolchain and its copies
InitCopy == InitWith({CFlagsPlain}, {<<LibM>>}, {{}},
                     {a \in VersionAnswers : a.out = VerNew})

CopyLevels == {LevelDebug, LevelInt(2)}

AddToAny ==
    \E o \in 1..Len(objs), feature \in FeatureNames,
       incs \in {<<>>, <<DirB>>}, ldirs \in {<<>>, <<DirB>>} :
       AddLibrary(o, feature, incs, ldirs, <<LibZ>>)

CopyOfAny == \E o \in 1..Len(objs), level \in CopyLevels : WithOptimizationLevel(o, level)

NextCopy == AddToAny \/ CopyOfAny

SpecCopy == InitCopy /\ [][NextCopy]_vars

\* ================================================================== claims

IsPrefix(a, b) == Len(a) <= Len(b) /\ SubSeq(b, 1, Len(a)) = a

RECURSIVE Reverse(_)
Reverse(l) == IF l = <<>> THEN <<>> ELSE Reverse(Tail(l)) \o <<Head(l)>>

\* C1: a call of add_library whose feature name the toolchain already has
\* leaves the objects, the features and the directory lists as they were,
\* and a call with a new feature name records it: a second call with the
\* same feature name, whatever its other arguments, changes nothing.
C1_AddLibraryIdempotent ==
    [][last'.op = "add_library" =>
          /\ last'.feature \in sets'[objs'[last'.obj].features]
          /\ last'.feature \in Features(last'.obj) =>
                (objs' = objs /\ sets' = sets /\ lists' = lists)]_vars

\* A repeated add_library call whose arguments name directories or
\* libraries the toolchain does not have
C1_Witness ==
    last.op = "add_library" /\ last.repeat /\ last.note

DirsDuplicateFree == \A r \in DOMAIN lists : NoDup(lists[r])

\* C2: from duplicate-free include_dirs and library_dirs, every step leaves
\* them duplicate-free, and each list as it was is a prefix of the list as
\* it is: earlier entries keep their places, new ones come after them.
C2_DirsNoDupOrderKept ==
    [][DirsDuplicateFree =>
          /\ DirsDuplicateFree'
          /\ \A r \in DOMAIN lists : IsPrefix(lists[r], lists'[r])]_vars

\* An effective add_library call whose directory arguments repeated an
\* entry or named one already present, and that appended a new directory
C2_Witness ==
    /\ last.op = "add_library" /\ ~last.repeat /\ last.note
    /\ IncludeDirs(1) = <<DirA, DirB>>

\* The libraries of object o, latest call first, then those it started with
ExpectedLibraries(o) == Flatten(Reverse(hist[o].added)) \o hist[o].libs0

\* How a library shows on the link command line
ShownAs(cls, lib) ==
    IF cls = "ISPC" /\ lib = FlagFopenmp THEN lib ELSE <<"-", "l">> \o lib

LinkFiles == {<<>>, <<FileO>>, <<FileCpp>>}

\* C3: the link command line of _cmdline(files, object=False) ends with the
\* libraries, those of the latest add_library call first, then those of
\* the calls before it, latest first, then those the toolchain started with.
C3_LaterLibrariesFirst ==
    \A o \in 1..Len(objs) : \A files \in LinkFiles :
        LET cmd == Cmdline(o, files, FALSE)
            want == ExpectedLibraries(o)
        IN  cmd.raised = "none" =>
               /\ Len(cmd.value) >= Len(want)
               /\ SubSeq(cmd.value, Len(cmd.value) - Len(want) + 1, Len(cmd.value))
                     = [i \in 1..Len(want) |-> ShownAs(objs[o].cls, want[i])]

\* Two effective add_library calls with different libraries on a toolchain
\* that started with a library
C3_Witness ==
    /\ Len(hist[1].added) = 2
    /\ hist[1].added[1] = <<LibM>> /\ hist[1].added[2] = <<LibZ>>
    /\ hist[1].libs0 # <<>>
    /\ Cmdline(1, <<FileO>>, FALSE).raised = "none"

\* The flags of l that begin with prefix
Beginning(l, prefix) == SelectSeq(l, LAMBDA f : StartsWith(f, prefix))

\* The -march and -mtune flags of l
Tuning(l) == SelectSeq(l, LAMBDA f : StartsWith(f, PfxMarch) \/ StartsWith(f, PfxMtune))

\* C4: a with_optimization_level call that returns leaves every object
\* there was, the features and the directory lists unchanged; and when its
\* receiver is itself the result r1 = t.with_optimization_level(l1), the
\* result r2 has the compile flags of t.with_optimization_level(l2): its
\* only -O and -g flags are those of l2, and where l2 brings no -march or
\* -mtune flag, r2 has none (GCC) or exactly those t had (ISPC, which does
\* not strip them).
C4_OptimizationLevelPure ==
    [][(last'.op = "with_optimization_level" /\ last'.raised = "none") =>
          /\ \A o \in 1..Len(objs) : objs'[o] = objs[o]
          /\ sets' = sets /\ lists' = lists
          /\ LET r2 == last'.new
                 r1 == last'.obj
                 t == hist[r1].parent
                 l2 == last'.level
                 flags == objs'[r2].cflags
             IN  t # 0 =>
                    /\ flags = NewCFlags(objs[t].cls, objs[t].cflags, l2).value
                    /\ l2.debug =>
                          /\ Beginning(flags, PfxO) = <<>>
                          /\ Beginning(flags, PfxG) = <<FlagG>>
                    /\ ~l2.debug =>
                          /\ Beginning(flags, PfxO) = <<PfxO \o FormatInt(l2.n)>>
                          /\ Beginning(flags, PfxG) = <<>>
                    /\ (l2.debug \/ l2.n < 2) =>
                          Tuning(flags) = Tuning(RemovePrefixes(objs[t].cflags,
                              IF objs[t].cls = "GCC" THEN <<PfxMarch, PfxMtune>> ELSE <<>>))]_vars

\* r2 = t.with_optimization_level(l1).with_optimization_level(debug), where
\* t had optimization, debug and tuning flags and l1 added -O and tuning flags
C4_Witness ==
    /\ last.op = "with_optimization_level" /\ last.raised = "none"
    /\ last.new = 3 /\ last.obj = 2 /\ hist[2].parent = 1
    /\ objs[1].cflags = CFlagsTuned
    /\ ~hist[2].level.debug /\ hist[2].level.n >= 2
    /\ Beginning(objs[2].cflags, PfxMarch) = <<FlagMarchNative>>
    /\ last.level.debug

\* C5: the toolchain with_optimization_level("debug") returned has the flag
\* -g and no flag beginning with -O; the one with_optimization_level(n)
\* returned has exactly one flag beginning with -O, which is -O<n>, and no
\* flag beginning with -g.
C5_OnePolicyPerLevel ==
    \A o \in 1..Len(objs) :
        hist[o].parent # 0 =>
            IF hist[o].level.debug
            THEN /\ \E i \in 1..Len(objs[o].cflags) : objs[o].cflags[i] = FlagG
                 /\ Beginning(objs[o].cflags, PfxO) = <<>>
            ELSE /\ Beginning(objs[o].cflags, PfxO) = <<PfxO \o FormatInt(hist[o].level.n)>>
                 /\ Beginning(objs[o].cflags, PfxG) = <<>>

\* A debug toolchain made from one that had -O flags, and a numeric-level
\* toolchain made from that debug toolchain
C5_Witness ==
    /\ Len(objs) = 3 /\ hist[2].parent = 1 /\ hist[3].parent = 2
    /\ Beginning(objs[1].cflags, PfxO) # <<>>
    /\ hist[2].level.debug /\ ~hist[3].level.debug

HeaderA == <<"a", ".", "h">>
HeaderB == <<"b", ".", "h">>
HeaderC == <<"c", ".", "h">>

\* C6 as stated: the report 'out.o: a.h b.h' continued by 'c.h' yields
\* every name after the target, {a.h, b.h, c.h}.
C6_AllNamesAfterTarget ==
    (last.op = "get_dependencies" /\ last.raised = "none" /\ last.read = DepExample)
        => last.result = {HeaderA, HeaderB, HeaderC}

\* The lines of text, a line ending in a backslash folded with the next
LogicalLines(text) == JoinContinuedLines(SplitOn(text, "\n"))

\* C6, amended: get_dependencies returns, for every logical line of the
\* text it reads, the whitespace-separated tokens after the first two
\* ("target:" and the first name after it), and nothing else; for the
\* report 'out.o: a.h b.h' continued by 'c.h' that is {b.h, c.h}.
C6_TokensAfterFirstTwo ==
    (last.op = "get_dependencies" /\ last.raised = "none") =>
        /\ \A tok \in last.result :
              \E l \in 1..Len(LogicalLines(last.read)) :
                  \E i \in 3..Len(SplitWS(LogicalLines(last.read)[l])) :
                      SplitWS(LogicalLines(last.read)[l])[i] = tok
        /\ \A l \in 1..Len(LogicalLines(last.read)) :
              \A i \in 3..Len(SplitWS(LogicalLines(last.read)[l])) :
                  SplitWS(LogicalLines(last.read)[l])[i] \in last.result
        /\ last.read = DepExample => last.result = {HeaderB, HeaderC}

\* The report of the claim was read and parsed
C6_Witness ==
    /\ last.op = "get_dependencies" /\ last.raised = "none"
    /\ last.read = DepExample /\ last.result # {}

BuildOps == {"build_object", "build_extension", "link_extension"}
SubprocessOps == BuildOps \cup {"get_dependencies", "get_version"}

\* The command line that was run, as one text
ShownCommand == Join(<<" ">>, last.cmdline)

\* An operation ran a compiler that exited with a non-zero code
NonZeroExit == last.op \in SubprocessOps /\ last.ran /\ last.rc # 0

\* C7 as stated: after a non-zero exit the operation ends in a compile error
\* whose message references the command line that was run.
C7_ErrorNamesCommandLine ==
    NonZeroExit =>
        /\ last.raised = "CompileError"
        /\ Contains(last.msg, ShownCommand)

\* C7: an operation that ran a compiler which exited with a non-zero code
\* never returns normally.  The build operations print "FAILED compiler
\* invocation:" and the command line to sys.stderr and raise CompileError
\* "module compilation failed"; get_dependencies raises CompileError and
\* get_version RuntimeError, their message a fixed text followed by the
\* compiler's error output.  No message contains the command line.
C7_NonZeroExitRaises ==
    NonZeroExit =>
        /\ last.raised = IF last.op = "get_version" THEN "RuntimeError"
                         ELSE "CompileError"
        /\ last.msg = CASE last.op \in BuildOps -> CompilationFailed
                        [] last.op = "get_dependencies" -> DepsFailed \o last.stderr
                        [] last.op = "get_version" -> VersionFailed \o last.stderr
        /\ last.printed = IF last.op \in BuildOps
                          THEN <<FailedInvocation \o ShownCommand>>
                          ELSE <<>>
        /\ ~Contains(last.msg, ShownCommand)

\* A build whose compiler was killed by a signal has failed
C7_Witness ==
    /\ NonZeroExit
    /\ last.op = "link_extension"
    /\ last.rc < 0
    /\ last.raised = "CompileError"
    /\ last.printed # <<>>

\* C10 as stated: NVCCToolchain fails each of build_object, build_extension
\* and link_extension when the compiler exits with code zero and its error
\* output contains "error".
C10_ErrorOutputFailsBuild ==
    ( /\ last.op \in BuildOps
      /\ objs[last.obj].cls = "NVCC"
      /\ last.ran
      /\ last.rc = 0
      /\ Contains(last.stderr, ErrorMarker) )
    => last.raised = "CompileError" /\ last.msg = CompilationFailed

\* The flags, defines, undefines and paths of a configuration; cppflags is
\* a field of the ISPC toolchain only
Settings(o) ==
    [cflags |-> objs[o].cflags,
     cppflags |-> IF objs[o].cls = "ISPC" THEN objs[o].cppflags ELSE <<>>,
     ldflags |-> objs[o].ldflags,
     defines |-> objs[o].defines,
     undefines |-> objs[o].undefines,
     include_dirs |-> IncludeDirs(o),
     library_dirs |-> LibraryDirs(o)]

\* Both toolchains were fingerprinted, with the same compiler version
BothProbed == DOMAIN Probed = {1, 2} /\ \A o \in {1, 2} : Probed[o].raised = "none"

\* C8 as stated: two configurations of one backend, fingerprinted with the
\* same compiler and interpreter version, have equal abi_id when they
\* differ in their features at most, and different abi_id when a flag, a
\* define, an undefine, an include path or a library path differs.
C8_AbiIdSeparatesSettings ==
    BothProbed =>
        /\ Settings(1) = Settings(2) => Probed[1] = Probed[2]
        /\ Settings(1) # Settings(2) => Probed[1] # Probed[2]

\* The extensions of the files of the last _cmdline call, each file
\* having one
Extensions == {GetExt(last.files[i]) : i \in 1..Len(last.files)}

\* ISPCToolchain._cmdline was called with files that all have an extension
ISPCCmdlineCalled ==
    /\ last.op = "_cmdline"
    /\ objs[last.obj].cls = "ISPC"
    /\ \A i \in 1..Len(last.files) : RIndexDot(last.files[i]) # 0

\* C9 as stated: ISPCToolchain._cmdline, in object mode or in link mode,
\* raises the error that names the extensions present when its files have
\* differing extensions, and does not raise it when they share one.
C9_MixedExtensionsRejected ==
    ISPCCmdlineCalled =>
        /\ Cardinality(Extensions) > 1 =>
              /\ last.raised = "CompileError"
              /\ last.value.joined = Extensions
        /\ Cardinality(Extensions) <= 1 => last.raised = "none"

TasksysName == <<"t", "a", "s", "k", "s", "y", "s", ".", "c", "p", "p">>

\* The list names a tasksys.cpp
HasTasksys(files) == \E i \in 1..Len(files) : EndsWith(files[i], TasksysName)

\* C11 as stated: ISPCToolchain.build_extension adds tasksys.cpp to the
\* sources exactly when none of the sources given is that file, and then
\* runs the compiler on the resulting list instead of failing before any
\* compiler is run.
C11_TasksysAddedWhenMissing ==
    (last.op = "build_extension" /\ objs[last.obj].cls = "ISPC") =>
        /\ HasTasksys(last.given) => last.sources = last.given
        /\ ~HasTasksys(last.given) =>
              /\ Len(last.sources) = Len(last.given) + 1
              /\ SubSeq(last.sources, 1, Len(last.given)) = last.given
              /\ EndsWith(last.sources[Len(last.sources)], TasksysName)
        /\ last.raised \notin FileNameErrors
        /\ last.raised = "none" => last.ran

\* _cmdline was called and returned a command line
CmdlineBuilt == last.op = "_cmdline" /\ last.raised = "none"

\* -D, -U and -I arguments of object o, then the files
MiddlePart(o, files) ==
    [i \in 1..Len(objs[o].defines) |-> <<"-", "D">> \o objs[o].defines[i]]
    \o [i \in 1..Len(objs[o].undefines) |-> <<"-", "U">> \o objs[o].undefines[i]]
    \o [i \in 1..Len(IncludeDirs(o)) |-> <<"-", "I">> \o IncludeDirs(o)[i]]
    \o files

\* -L arguments of object o, then its libraries as its class shows them
LinkPart(o, cls) ==
    [i \in 1..Len(LibraryDirs(o)) |-> <<"-", "L">> \o LibraryDirs(o)[i]]
    \o [i \in 1..Len(objs[o].libraries) |-> ShownAs(cls, objs[o].libraries[i])]

\* C12 as stated: for the three backends the command line built is
\* [cc] + cflags + mode flags + -D.. + -U.. + -I.. + files, followed when
\* linking by -L.. and -l<lib> for each library; the mode flags are -c in
\* object mode and the link flags in link mode.
C12_OneShapeForAll ==
    CmdlineBuilt =>
        LET o == last.obj
            t == objs[o]
        IN  last.value = <<t.cc>> \o t.cflags
                         \o (IF last.object THEN <<FlagC>> ELSE t.ldflags)
                         \o MiddlePart(o, last.files)
                         \o (IF last.object THEN <<>> ELSE LinkPart(o, "GCC"))

\* The files all end in ext
AllEnd(files, ext) == \A i \in 1..Len(files) : EndsWith(files[i], ext)

\* C12: the GCC and NVCC toolchains build exactly the stated shape.  The
\* ISPC toolchain builds [compiler] + flags + mode flags + -D.. + -U.. +
\* -I.. + files + (when linking) -L.. + libraries, where the compiler is cc
\* for no files or, in object mode, files all ending in .ispc, cpp for
\* files all ending in .cpp, and ld otherwise; the flags are cflags for cc
\* and cppflags for cpp and ld; the mode flags are the link flags in link
\* mode, nothing in object mode for cc and -c in object mode for cpp and
\* ld; and the library -fopenmp is passed as it is, every other as
\* -l<lib>.  In object mode no backend passes a -L or -l argument.
C12_CmdlineShape ==
    CmdlineBuilt =>
        LET o == last.obj
            t == objs[o]
            ispc == t.cls = "ISPC"
            first == (last.object /\ AllEnd(last.files, ExtIspc)) \/ last.files = <<>>
            compiler == IF ~ispc \/ first THEN t.cc
                        ELSE IF AllEnd(last.files, ExtCpp) THEN t.cpp ELSE t.ld
            flags == IF ~ispc \/ first THEN t.cflags ELSE t.cppflags
            mode == IF ~last.object THEN t.ldflags
                    ELSE IF ispc /\ first THEN <<>> ELSE <<FlagC>>
        IN  /\ last.value = <<compiler>> \o flags \o mode
                            \o MiddlePart(o, last.files)
                            \o (IF last.object THEN <<>> ELSE LinkPart(o, t.cls))
            /\ last.object =>
                  \A i \in 1..Len(last.value) :
                     /\ ~StartsWith(last.value[i], <<"-", "L">>)
                     /\ ~StartsWith(last.value[i], <<"-", "l">>)

\* An ISPC link line for a C++ source, with a library and -fopenmp
C12_Witness ==
    /\ CmdlineBuilt
    /\ objs[last.obj].cls = "ISPC"
    /\ ~last.object
    /\ last.files = <<FileCpp>>
    /\ objs[last.obj].libraries = <<LibZ, LibM, FlagFopenmp>>
    /\ last.value[1] = CppGxx

\* Object r was made by t.with_optimization_level, or t by r's
CopyPair(t, r) == hist[r].parent = t \/ hist[t].parent = r

\* C13 as stated: an add_library call on a toolchain leaves the features,
\* include_dirs, library_dirs and libraries of the toolchain it was copied
\* from, and of the toolchains copied from it, as they were.
C13_CopiesSelfContained ==
    [][\A t \in 1..Len(objs) :
          (last'.op = "add_library" /\ last'.obj # t /\ CopyPair(t, last'.obj)) =>
              /\ sets'[objs'[t].features] = Features(t)
              /\ lists'[objs'[t].include_dirs] = IncludeDirs(t)
              /\ lists'[objs'[t].library_dirs] = LibraryDirs(t)
              /\ objs'[t].libraries = objs[t].libraries]_vars


====
